---- MODULE Spec2Model ----
(***************************************************************************)
(* Model of build.py: the RustBuilder build orchestrator and its CLI       *)
(* entry point.  External processes (cargo), the filesystem and the        *)
(* interactive user are the environment: each external invocation ends     *)
(* with one of the outcomes in Outcomes, and its effect on target/ is a    *)
(* nondeterministic choice over what the tool can leave behind.            *)
(***************************************************************************)
EXTENDS Integers, Sequences, FiniteSets, TLC

VARIABLES
    entry,        \* which operation was invoked: main(), build_final(), full_build_and_run()
    args,         \* parsed command-line flags / the call's arguments
    hasManifest,  \* project_dir/Cargo.toml exists
    targetExists, \* project_dir/target exists
    built,        \* size of target/release/<exe_name>, 0 = no such file
    dest,         \* size of out_dir/<exe_name>, 0 = no such file
    pc,           \* position in the workflow
    calls,        \* argv of every external command spawned so far, in order
    outcomes,     \* outcome of each entry of calls
    fsOps,        \* <<operation, succeeded>> of each filesystem operation the script attempted
    ret,          \* return value of the composite operation, NoValue before it returns
    exitCode,     \* code passed to sys.exit, NoExit when the process has not exited
    raised,       \* exception that left the invoked operation uncaught
    prompted,     \* the run-confirmation input() was reached
    manifest,     \* lines of Cargo.toml (detect_bin_name)
    readable,     \* Cargo.toml can be read as UTF-8 text
    tomllibOk,    \* "import tomllib" succeeds (Python 3.11+)
    detected      \* result of detect_bin_name, Pending before the call

vars == <<entry, args, hasManifest, targetExists, built, dest, pc, calls,
          outcomes, fsOps, ret, exitCode, raised, prompted,
          manifest, readable, tomllibOk, detected>>

wfVars == <<entry, args, hasManifest, targetExists, built, dest, pc, calls,
            outcomes, fsOps, ret, exitCode, raised, prompted>>

detVars == <<manifest, readable, tomllibOk, detected>>

\* ---------------------------------------------------------------- bounds
MaxSize == 2
MaxLines == 4

\* ------------------------------------------------------------- constants
EXIT_OK == 0
EXIT_FAIL == 1
EXIT_INTERRUPT == 130
NoExit == 0 - 1

NoValue == "none"
RetTrue == "True"
RetFalse == "False"
NoException == "none"
KeyboardInterrupt == "KeyboardInterrupt"
AnyException == "Exception"

\* Outcome of one external invocation (subprocess.run with check=True):
\* exit code 0, CalledProcessError, an OSError at spawn, or Ctrl+C.
Outcomes == {"ok", "nonzero", "spawn", "interrupt"}

Sizes == 0..MaxSize

Entries == {"main", "build_final", "full_build_and_run"}

Args == [clean_only : BOOLEAN, check_only : BOOLEAN, clean : BOOLEAN,
         debug : BOOLEAN, run_tests : BOOLEAN, example : BOOLEAN]

\* ------------------------------------------------------------ argv built
CleanCmd == <<"cargo", "clean">>
CheckCmd == <<"cargo", "check">>
TestCmd == <<"cargo", "test">>
FinalBuildCmd == <<"cargo", "build", "--release", "--bin", "NAME">>

BuildCmd(release) ==
    <<"cargo", "build">> \o (IF release THEN <<"--release">> ELSE <<>>)

RunCmd(example, release) ==
    (IF example THEN <<"cargo", "run", "--example", "EX">> ELSE <<"cargo", "run">>)
        \o (IF release THEN <<"--release">> ELSE <<>>)

\* ------------------------------------------------------ pure operations
check_cargo_project_always(m) == TRUE

\* check_cargo_project: self.cargo_toml.exists()
check_cargo_project(m) == m

run_command_always_ok(o) == TRUE

\* run_command's success flag: True on exit 0, False on CalledProcessError
\* and on any other Exception.  KeyboardInterrupt is no Exception subclass
\* and passes through (see Propagates).
run_command(o) == o = "ok"

\* An outcome that run_command does not turn into a result value.
Propagates(o) == o = "interrupt"

run_application_catches_less(o) == o = "nonzero"

\* run_application's except clauses: KeyboardInterrupt and CalledProcessError.
run_application_catches(o) == o \in {"interrupt", "nonzero"}

exit_status_always_ok(success) == EXIT_OK

\* sys.exit(0 if success else 1)
exit_status(success) == IF success THEN EXIT_OK ELSE EXIT_FAIL

copy2_keeps_old(src, old) == old

\* shutil.copy2(built_path, final_path) on success: the destination holds
\* the source's content, whatever it held before.
copy2(src, old) == src

tests_abort_on_failure(ok) == IF ok THEN "fb_prompt" ELSE "abort"

\* full_build_and_run after the test step: the result only prints a warning.
after_tests(ok) == "fb_prompt"

\* ------------------------------------------------- environment's effects
\* What a clean (cargo clean, or shutil.rmtree with ignore_errors) can leave
\* of target/: gone, untouched, or the directory without the artifact.
CleanEffects(t, b) ==
    {<<FALSE, 0>>, <<t, b>>} \cup (IF t THEN {<<TRUE, 0>>} ELSE {})

\* What a build that exits 0 can leave: the artifact written at the expected
\* path, or the expected path as it was (the output went elsewhere).
BuildOkEffects(t, b) ==
    {<<TRUE, s>> : s \in 1..MaxSize} \cup {<<TRUE, b>>}

\* ------------------------------------------------------- control helpers
\* The composite operation returns v; under main() that is
\* sys.exit(0 if success else 1).
Return(v) ==
    /\ pc' = "done"
    /\ ret' = (IF v THEN RetTrue ELSE RetFalse)
    /\ exitCode' = IF entry = "main" THEN exit_status(v) ELSE exitCode
    /\ raised' = raised

\* An exception leaves the operation; main() catches KeyboardInterrupt
\* (exit 130) and Exception (exit 1).
Raise(e) ==
    /\ pc' = "done"
    /\ ret' = ret
    /\ IF entry = "main"
          THEN /\ exitCode' = IF e = KeyboardInterrupt THEN EXIT_INTERRUPT ELSE EXIT_FAIL
               /\ raised' = raised
          ELSE /\ exitCode' = exitCode
               /\ raised' = e

Goto(l) ==
    /\ pc' = l
    /\ UNCHANGED <<ret, exitCode, raised>>

Spawn(cmd, o) ==
    /\ calls' = Append(calls, cmd)
    /\ outcomes' = Append(outcomes, o)

\* Effect of one "cargo clean" invocation: nothing when it could not be spawned.
CleanOutcomeEffects(o, t, b) ==
    IF o = "spawn" THEN {<<t, b>>} ELSE CleanEffects(t, b)

\* clean_build: cargo clean through run_command; the existence check of
\* target/ afterwards only prints.
CleanBuild(o) ==
    /\ Spawn(CleanCmd, o)
    /\ \E e \in CleanOutcomeEffects(o, targetExists, built) :
          /\ targetExists' = e[1]
          /\ built' = e[2]

\* A cargo subcommand that compiles (check, test, build on failure) may
\* create target/ and leaves the release artifact alone.
Touch(o) ==
    /\ targetExists' \in (IF o = "spawn" THEN {targetExists} ELSE {targetExists, TRUE})
    /\ built' = built

\* A build command that exits 0.
BuildOk ==
    \E e \in BuildOkEffects(targetExists, built) :
        /\ targetExists' = e[1]
        /\ built' = e[2]

\* sys.exit(code) inside main().
Exit(code) ==
    /\ pc' = "done"
    /\ exitCode' = code
    /\ UNCHANGED <<ret, raised>>

Mode(a) ==
    IF a.clean_only THEN "co_clean"
    ELSE IF a.check_only THEN "ck_clean"
    ELSE "bf_validate"

Release(a) == ~a.debug

\* ------------------------------------------------------------------ Init
WfInit ==
    /\ entry \in Entries
    /\ args \in Args
    /\ entry # "main" => (~args.clean_only /\ ~args.check_only)
    /\ hasManifest \in BOOLEAN
    /\ built \in Sizes
    /\ targetExists \in BOOLEAN
    /\ built > 0 => targetExists
    /\ dest \in Sizes
    /\ pc = (CASE entry = "main" -> "main"
               [] entry = "build_final" -> "bf_validate"
               [] OTHER -> "fb_validate")
    /\ calls = <<>>
    /\ outcomes = <<>>
    /\ fsOps = <<>>
    /\ ret = NoValue
    /\ exitCode = NoExit
    /\ raised = NoException
    /\ prompted = FALSE

DetIdle ==
    /\ manifest = <<>>
    /\ readable = TRUE
    /\ tomllibOk = TRUE
    /\ detected = "pending"

Init == WfInit /\ DetIdle

\* ------------------------------------------------------- main(), by mode
\* main(): the check_cargo_project every mode starts with.
MainValidate ==
    /\ pc = "main"
    /\ IF check_cargo_project(hasManifest)
          THEN Goto(Mode(args))
          ELSE Exit(EXIT_FAIL)
    /\ UNCHANGED <<entry, args, hasManifest, targetExists, built, dest,
                   calls, outcomes, fsOps, prompted>>
    /\ UNCHANGED detVars

\* --clean-only: success = builder.clean_build(); sys.exit(0 if success else 1)
CleanOnly ==
    /\ pc = "co_clean"
    /\ \E o \in Outcomes :
          /\ CleanBuild(o)
          /\ IF Propagates(o)
                THEN Raise(KeyboardInterrupt)
                ELSE Exit(exit_status(run_command(o)))
    /\ UNCHANGED <<entry, args, hasManifest, dest, fsOps, prompted>>
    /\ UNCHANGED detVars

\* --check-only: builder.clean_build(), its result dropped
CheckOnlyClean ==
    /\ pc = "ck_clean"
    /\ \E o \in Outcomes :
          /\ CleanBuild(o)
          /\ IF Propagates(o)
                THEN Raise(KeyboardInterrupt)
                ELSE Goto("ck_check")
    /\ UNCHANGED <<entry, args, hasManifest, dest, fsOps, prompted>>
    /\ UNCHANGED detVars

\* --check-only: success = builder.check_project(); sys.exit(0 if success else 1)
CheckOnlyCheck ==
    /\ pc = "ck_check"
    /\ \E o \in Outcomes :
          /\ Spawn(CheckCmd, o)
          /\ Touch(o)
          /\ IF Propagates(o)
                THEN Raise(KeyboardInterrupt)
                ELSE Exit(exit_status(run_command(o)))
    /\ UNCHANGED <<entry, args, hasManifest, dest, fsOps, prompted>>
    /\ UNCHANGED detVars

\* ----------------------------------------------------------- build_final
BuildFinalValidate ==
    /\ pc = "bf_validate"
    /\ IF check_cargo_project(hasManifest)
          THEN Goto("bf_clean")
          ELSE Return(FALSE)
    /\ UNCHANGED <<entry, args, hasManifest, targetExists, built, dest,
                   calls, outcomes, fsOps, prompted>>
    /\ UNCHANGED detVars

\* Step 0: clean_build, whatever the clean argument; when it fails and
\* target/ is still there, shutil.rmtree(target_dir, ignore_errors=True).
BuildFinalClean ==
    /\ pc = "bf_clean"
    /\ \E o \in Outcomes :
          /\ Spawn(CleanCmd, o)
          /\ \E e \in CleanOutcomeEffects(o, targetExists, built) :
                IF Propagates(o)
                   THEN /\ targetExists' = e[1]
                        /\ built' = e[2]
                        /\ fsOps' = fsOps
                        /\ Raise(KeyboardInterrupt)
                   ELSE /\ IF ~run_command(o) /\ e[1]
                              THEN /\ fsOps' = Append(fsOps, <<"rmtree", TRUE>>)
                                   /\ \E f \in CleanEffects(e[1], e[2]) :
                                         /\ targetExists' = f[1]
                                         /\ built' = f[2]
                              ELSE /\ fsOps' = fsOps
                                   /\ targetExists' = e[1]
                                   /\ built' = e[2]
                        /\ Goto("bf_build")
    /\ UNCHANGED <<entry, args, hasManifest, dest, prompted>>
    /\ UNCHANGED detVars

\* Step 1: cargo build --release --bin NAME, live output; not ok => return False
BuildFinalBuild ==
    /\ pc = "bf_build"
    /\ \E o \in Outcomes :
          /\ Spawn(FinalBuildCmd, o)
          /\ IF Propagates(o)
                THEN Touch(o) /\ Raise(KeyboardInterrupt)
                ELSE IF run_command(o)
                        THEN BuildOk /\ Goto("bf_lookup")
                        ELSE Touch(o) /\ Return(FALSE)
    /\ UNCHANGED <<entry, args, hasManifest, dest, fsOps, prompted>>
    /\ UNCHANGED detVars

\* if not built_path.exists(): return False
BuildFinalLookup ==
    /\ pc = "bf_lookup"
    /\ IF built = 0 THEN Return(FALSE) ELSE Goto("bf_mkdir")
    /\ UNCHANGED <<entry, args, hasManifest, targetExists, built, dest,
                   calls, outcomes, fsOps, prompted>>
    /\ UNCHANGED detVars

\* out_path.mkdir(parents=True, exist_ok=True): outside any try of build_final
BuildFinalMkdir ==
    /\ pc = "bf_mkdir"
    /\ \E ok \in BOOLEAN :
          /\ fsOps' = Append(fsOps, <<"mkdir", ok>>)
          /\ IF ok THEN Goto("bf_copy") ELSE Raise(AnyException)
    /\ UNCHANGED <<entry, args, hasManifest, targetExists, built, dest,
                   calls, outcomes, prompted>>
    /\ UNCHANGED detVars

\* shutil.copy2(built_path, final_path); any Exception => return False,
\* leaving whatever the failed copy wrote.
BuildFinalCopy ==
    /\ pc = "bf_copy"
    /\ \E ok \in BOOLEAN :
          /\ fsOps' = Append(fsOps, <<"copy2", ok>>)
          /\ IF ok
                THEN /\ dest' = copy2(built, dest)
                     /\ Goto("bf_report")
                ELSE /\ dest' \in Sizes
                     /\ Return(FALSE)
    /\ UNCHANGED <<entry, args, hasManifest, targetExists, built,
                   calls, outcomes, prompted>>
    /\ UNCHANGED detVars

\* final_path.stat() (raises when the file is missing), then return True
BuildFinalReport ==
    /\ pc = "bf_report"
    /\ IF dest = 0 THEN Raise(AnyException) ELSE Return(TRUE)
    /\ UNCHANGED <<entry, args, hasManifest, targetExists, built, dest,
                   calls, outcomes, fsOps, prompted>>
    /\ UNCHANGED detVars

\* ---------------------------------------------------- full_build_and_run
FullValidate ==
    /\ pc = "fb_validate"
    /\ IF check_cargo_project(hasManifest)
          THEN Goto("fb_clean")
          ELSE Return(FALSE)
    /\ UNCHANGED <<entry, args, hasManifest, targetExists, built, dest,
                   calls, outcomes, fsOps, prompted>>
    /\ UNCHANGED detVars

\* Krok 1: if not self.clean_build(): return False
FullClean ==
    /\ pc = "fb_clean"
    /\ \E o \in Outcomes :
          /\ CleanBuild(o)
          /\ IF Propagates(o)
                THEN Raise(KeyboardInterrupt)
                ELSE IF run_command(o) THEN Goto("fb_build") ELSE Return(FALSE)
    /\ UNCHANGED <<entry, args, hasManifest, dest, fsOps, prompted>>
    /\ UNCHANGED detVars

\* Krok 2: if not self.build_project(release): return False.  After a
\* successful build build_project calls detect_bin_name only to print the
\* artifact's path and size.
FullBuild ==
    /\ pc = "fb_build"
    /\ \E o \in Outcomes :
          /\ Spawn(BuildCmd(Release(args)), o)
          /\ IF Propagates(o)
                THEN Touch(o) /\ Raise(KeyboardInterrupt)
                ELSE IF run_command(o)
                        THEN /\ IF Release(args) THEN BuildOk ELSE Touch(o)
                             /\ Goto(IF args.run_tests THEN "fb_test" ELSE "fb_prompt")
                        ELSE Touch(o) /\ Return(FALSE)
    /\ UNCHANGED <<entry, args, hasManifest, dest, fsOps, prompted>>
    /\ UNCHANGED detVars

\* Krok 3: if run_tests: if not self.run_tests(): print a warning
FullTest ==
    /\ pc = "fb_test"
    /\ \E o \in Outcomes :
          /\ Spawn(TestCmd, o)
          /\ Touch(o)
          /\ IF Propagates(o)
                THEN Raise(KeyboardInterrupt)
                ELSE IF after_tests(run_command(o)) = "fb_prompt"
                        THEN Goto("fb_prompt")
                        ELSE Return(FALSE)
    /\ UNCHANGED <<entry, args, hasManifest, dest, fsOps, prompted>>
    /\ UNCHANGED detVars

\* Krok 4: response = input(...); run_application only on t/tak/y/yes
FullPrompt ==
    /\ pc = "fb_prompt"
    /\ prompted' = TRUE
    /\ \E r \in {"yes", "no", "interrupt"} :
          CASE r = "yes" -> Goto("fb_run")
            [] r = "no" -> Return(TRUE)
            [] OTHER -> Raise(KeyboardInterrupt)
    /\ UNCHANGED <<entry, args, hasManifest, targetExists, built, dest,
                   calls, outcomes, fsOps>>
    /\ UNCHANGED detVars

\* run_application: subprocess.run(check=True) directly, not run_command;
\* then full_build_and_run returns True.
FullRun ==
    /\ pc = "fb_run"
    /\ \E o \in Outcomes :
          /\ Spawn(RunCmd(args.example, Release(args)), o)
          /\ IF o = "ok" /\ Release(args) THEN BuildOk ELSE Touch(o)
          /\ IF o = "ok" \/ run_application_catches(o)
                THEN Return(TRUE)
                ELSE Raise(IF o = "interrupt" THEN KeyboardInterrupt ELSE AnyException)
    /\ UNCHANGED <<entry, args, hasManifest, dest, fsOps, prompted>>
    /\ UNCHANGED detVars

Next ==
    \/ MainValidate
    \/ CleanOnly
    \/ CheckOnlyClean
    \/ CheckOnlyCheck
    \/ BuildFinalValidate
    \/ BuildFinalClean
    \/ BuildFinalBuild
    \/ BuildFinalLookup
    \/ BuildFinalMkdir
    \/ BuildFinalCopy
    \/ BuildFinalReport
    \/ FullValidate
    \/ FullClean
    \/ FullBuild
    \/ FullTest
    \/ FullPrompt
    \/ FullRun

Spec == Init /\ [][Next]_vars

\* ------------------------------------------------------- detect_bin_name
\* Lines of Cargo.toml, after strip(): three table headers and three
\* key/value lines for the key "name".
HBin == "[[bin]]"
HPackage == "[package]"
HExample == "[[example]]"
NameFoo == "name = \"foo\""
NameBar == "name = \"bar\""
NameEmpty == "name = \"\""

Lines == {HBin, HPackage, HExample, NameFoo, NameBar, NameEmpty}

None == "None"
Pending == "pending"

\* line.startswith("[")
StartsWithBracket(l) == l \in {HBin, HPackage, HExample}

\* line.startswith("name") and "=" in line
IsNameLine(l) == l \in {NameFoo, NameBar, NameEmpty}

\* line.split("=", 1)[1].strip() starts with a quote and has a second one;
\* name = name_part.split('"')[1]
QuotedValue(l) ==
    CASE l = NameFoo -> "foo"
      [] l = NameBar -> "bar"
      [] OTHER -> ""

Manifests == UNION {[1..n -> Lines] : n \in 0..MaxLines}

\* The tables of the document in order, each with the values of its "name"
\* keys; the first one is the root table.
RECURSIVE Tables(_, _, _)
Tables(lines, i, acc) ==
    IF i > Len(lines) THEN acc
    ELSE IF StartsWithBracket(lines[i])
            THEN Tables(lines, i + 1, Append(acc, [hdr |-> lines[i], names |-> <<>>]))
            ELSE LET last == acc[Len(acc)]
                 IN Tables(lines, i + 1,
                           [acc EXCEPT ![Len(acc)] =
                               [last EXCEPT !.names = Append(last.names, QuotedValue(lines[i]))]])

TablesOf(lines) == Tables(lines, 1, <<[hdr |-> "root", names |-> <<>>]>>)

\* tomllib.loads raises TOMLDecodeError: a key set twice in one table, or
\* the table [package] declared twice.
TomlError(lines) ==
    LET ts == TablesOf(lines)
    IN \/ \E k \in 1..Len(ts) : Len(ts[k].names) > 1
       \/ Cardinality({k \in 1..Len(ts) : ts[k].hdr = HPackage}) > 1

TableName(t) == IF t.names = <<>> THEN None ELSE t.names[1]

FirstIndex(ts, h) ==
    LET ks == {k \in 1..Len(ts) : ts[k].hdr = h}
    IN IF ks = {} THEN 0 ELSE CHOOSE k \in ks : \A j \in ks : k <= j

\* The structured path: bin_tables[0].get("name"), else
\* data.get("package", {}).get("name"); None when neither is a non-empty
\* string, and on any exception.
TomllibName(lines) ==
    IF TomlError(lines) THEN None
    ELSE LET ts == TablesOf(lines)
             b == FirstIndex(ts, HBin)
             p == FirstIndex(ts, HPackage)
             binName == IF b = 0 THEN None ELSE TableName(ts[b])
             pkgName == IF p = 0 THEN None ELSE TableName(ts[p])
         IN IF binName \notin {None, ""} THEN binName
            ELSE IF pkgName \notin {None, ""} THEN pkgName
            ELSE None

\* First loop of the line scan: in_bin is set by a [[bin]] line and never
\* reset.
RECURSIVE ScanBin(_, _, _)
ScanBin(lines, i, in_bin) ==
    IF i > Len(lines) THEN None
    ELSE IF lines[i] = HBin THEN ScanBin(lines, i + 1, TRUE)
    ELSE IF in_bin /\ IsNameLine(lines[i]) /\ QuotedValue(lines[i]) # ""
            THEN QuotedValue(lines[i])
    ELSE ScanBin(lines, i + 1, in_bin)

\* Second loop: in_package is set by a [package] line; the next line that
\* starts with "[" ends the loop.
RECURSIVE ScanPackage(_, _, _)
ScanPackage(lines, i, in_package) ==
    IF i > Len(lines) THEN None
    ELSE IF lines[i] = HPackage THEN ScanPackage(lines, i + 1, TRUE)
    ELSE IF in_package /\ StartsWithBracket(lines[i]) THEN None
    ELSE IF in_package /\ IsNameLine(lines[i]) /\ QuotedValue(lines[i]) # ""
            THEN QuotedValue(lines[i])
    ELSE ScanPackage(lines, i + 1, in_package)

LineScanName(lines) ==
    IF ScanBin(lines, 1, FALSE) # None
       THEN ScanBin(lines, 1, FALSE)
       ELSE ScanPackage(lines, 1, FALSE)

\* detect_bin_name: None when Cargo.toml cannot be read; the structured
\* path when tomllib imports and finds a name; the line scan otherwise.
detect_bin_name(lines, canRead, hasTomllib) ==
    IF ~canRead THEN None
    ELSE IF hasTomllib /\ TomllibName(lines) # None THEN TomllibName(lines)
    ELSE LineScanName(lines)

WfIdle ==
    /\ entry = "main"
    /\ args = [clean_only |-> FALSE, check_only |-> FALSE, clean |-> FALSE,
               debug |-> FALSE, run_tests |-> FALSE, example |-> FALSE]
    /\ hasManifest = TRUE
    /\ targetExists = FALSE
    /\ built = 0
    /\ dest = 0
    /\ pc = "idle"
    /\ calls = <<>>
    /\ outcomes = <<>>
    /\ fsOps = <<>>
    /\ ret = NoValue
    /\ exitCode = NoExit
    /\ raised = NoException
    /\ prompted = FALSE

DetInit ==
    /\ WfIdle
    /\ manifest \in Manifests
    /\ readable \in BOOLEAN
    /\ tomllibOk \in BOOLEAN
    /\ detected = Pending

DetectBinName ==
    /\ detected = Pending
    /\ detected' = detect_bin_name(manifest, readable, tomllibOk)
    /\ UNCHANGED <<manifest, readable, tomllibOk>>
    /\ UNCHANGED wfVars

NextDetect == DetectBinName

SpecDetect == DetInit /\ [][NextDetect]_vars

\* Sequential script: every blocking step returns and the next one runs.
FairSpec == Spec /\ WF_vars(Next)

\* ---------------------------------------------------------------- claims
Idx == 1..Len(calls)

Has(cmd) == \E i \in Idx : calls[i] = cmd

Count(cmd) == Cardinality({i \in Idx : calls[i] = cmd})

\* The invocation failed: nonzero exit or spawn failure.
Failure(o) == o \in {"nonzero", "spawn"}

Failed(cmd) == \E i \in Idx : calls[i] = cmd /\ Failure(outcomes[i])

Attempted(op) == \E k \in 1..Len(fsOps) : fsOps[k][1] = op

Did(op) == \E k \in 1..Len(fsOps) : fsOps[k] = <<op, TRUE>>

Interrupted == \E i \in Idx : outcomes[i] = "interrupt"

DefaultMode == entry = "main" /\ Mode(args) = "bf_validate"

InBuildFinal == entry = "build_final" \/ DefaultMode

\* C1: in the default workflow of main(), once "cargo build --release --bin
\* NAME" has failed, no copy is ever attempted, build_final has returned
\* False and the process has exited with a nonzero code.
C1_BuildFailureStopsCopy ==
    (DefaultMode /\ Failed(FinalBuildCmd)) =>
        /\ ~Attempted("copy2")
        /\ ~Attempted("mkdir")
        /\ pc = "done"
        /\ ret = RetFalse
        /\ exitCode = EXIT_FAIL

C1_Witness ==
    /\ DefaultMode
    /\ Failed(FinalBuildCmd)
    /\ pc = "done"
    /\ dest > 0

C3_MissingManifestAborts ==
    (entry = "main" /\ pc # "main") =>
        /\ ~hasManifest =>
              /\ pc = "done"
              /\ exitCode = EXIT_FAIL
              /\ calls = <<>>
              /\ fsOps = <<>>
        /\ (hasManifest /\ pc = "done") => calls # <<>>

C3_Witness ==
    /\ entry = "main"
    /\ ~hasManifest
    /\ pc = "done"
    /\ args.check_only
    /\ targetExists

\* A step whose failure decides the mode's result: clean under
\* --clean-only, check under --check-only; build, artifact lookup, mkdir
\* and copy in the default mode.
DecisiveFailure ==
    \/ Mode(args) = "co_clean" /\ Failed(CleanCmd)
    \/ Failed(CheckCmd)
    \/ Failed(FinalBuildCmd)
    \/ \E k \in 1..Len(fsOps) : ~fsOps[k][2]
    \/ /\ Mode(args) = "bf_validate"
       /\ Has(FinalBuildCmd)
       /\ ~Failed(FinalBuildCmd)
       /\ ~Interrupted
       /\ ~Attempted("mkdir")

\* C4 as stated: exit code 0 is never produced by a run in which an
\* executed step failed, and any failed step gives 1.
C4_ExitCodes_Original ==
    (entry = "main" /\ pc = "done") =>
        /\ exitCode \in {EXIT_OK, EXIT_FAIL, EXIT_INTERRUPT}
        /\ exitCode = EXIT_OK => \A i \in Idx : ~Failure(outcomes[i])
        /\ ((\E i \in Idx : Failure(outcomes[i])) /\ ~Interrupted) => exitCode = EXIT_FAIL

\* C4 amended: the exit code is 130 exactly when the user interrupted, 1
\* when validation or a decisive step failed, 0 otherwise; a failed clean
\* under --check-only and in the default mode does not change it.
C4_ExitCodes ==
    (entry = "main" /\ pc = "done") =>
        /\ exitCode \in {EXIT_OK, EXIT_FAIL, EXIT_INTERRUPT}
        /\ exitCode = EXIT_INTERRUPT <=> Interrupted
        /\ exitCode = EXIT_FAIL <=> (~hasManifest \/ DecisiveFailure)
        /\ exitCode = EXIT_OK =>
              /\ hasManifest
              /\ Mode(args) = "co_clean" => outcomes = <<"ok">>
              /\ Mode(args) = "ck_clean" => (Len(outcomes) = 2 /\ outcomes[2] = "ok")
              /\ Mode(args) = "bf_validate" => (ret = RetTrue /\ Did("copy2"))

C4_Witness ==
    /\ entry = "main"
    /\ pc = "done"
    /\ exitCode = EXIT_OK
    /\ Failed(CleanCmd)

RunInterrupted ==
    \E i \in Idx : calls[i][2] = "run" /\ outcomes[i] = "interrupt"

\* C5 as stated: an interrupt during "cargo run" ends the process with
\* exit code 130.
C5_RunInterrupt_Original ==
    (pc = "done" /\ RunInterrupted) => exitCode = EXIT_INTERRUPT

\* C5 amended: an interrupt during "cargo run" is caught inside
\* run_application; nothing is raised, full_build_and_run returns True and
\* no exit code 130 is produced.
C5_RunInterruptSwallowed ==
    RunInterrupted =>
        /\ pc = "done"
        /\ raised = NoException
        /\ ret = RetTrue
        /\ exitCode # EXIT_INTERRUPT

C5_Witness ==
    /\ RunInterrupted
    /\ pc = "done"
    /\ Has(TestCmd)

\* C6: from the CLI, --run-tests runs the tests after the build, --example
\* reaches the run step of the full workflow, and --debug builds without
\* --release.
C6_FlagsReachFullWorkflow ==
    (DefaultMode /\ pc = "done" /\ exitCode = EXIT_OK) =>
        /\ args.run_tests => Has(TestCmd)
        /\ args.example => prompted
        /\ args.debug => (Has(BuildCmd(FALSE)) /\ ~Has(FinalBuildCmd))

\* C7: in the default workflow "cargo clean" runs iff --clean was given.
C7_CleanFlagDecides ==
    (DefaultMode /\ pc \notin {"main", "bf_validate", "bf_clean"} /\ hasManifest) =>
        (Has(CleanCmd) <=> args.clean)

TestFailed == Failed(TestCmd)

\* C8: in full_build_and_run with run_tests, a failed "cargo test" never
\* aborts: the prompt is the next step and is always reached, False is not
\* returned for it, and clean and build have run exactly once.
C8_TestFailureContinues ==
    /\ [](TestFailed =>
            /\ pc = "fb_prompt" \/ prompted
            /\ ~prompted => ret = NoValue
            /\ Count(CleanCmd) = 1
            /\ Count(BuildCmd(Release(args))) = 1
            /\ Count(TestCmd) = 1)
    /\ (TestFailed ~> prompted)

C8_Witness ==
    /\ TestFailed
    /\ prompted
    /\ pc = "done"
    /\ ret = RetTrue

\* C9: on a readable manifest detect_bin_name returns the name of the first
\* [[bin]] table that has a name, else the [package] name, else None, and
\* never a name of another table.
ExpectedName(lines) ==
    LET ts == TablesOf(lines)
        named(h) == {k \in 1..Len(ts) :
                        /\ ts[k].hdr = h
                        /\ \E j \in 1..Len(ts[k].names) : ts[k].names[j] # ""}
        first(S) == CHOOSE k \in S : \A j \in S : k <= j
        nameOf(k) == LET js == {j \in 1..Len(ts[k].names) : ts[k].names[j] # ""}
                     IN ts[k].names[CHOOSE j \in js : \A x \in js : j <= x]
    IN IF named(HBin) # {} THEN nameOf(first(named(HBin)))
       ELSE IF named(HPackage) # {} THEN nameOf(first(named(HPackage)))
       ELSE None

C9_DetectedIsBinOrPackage ==
    (detected # Pending /\ readable) => detected = ExpectedName(manifest)

\* C10: a step that makes an external invocation which fails (nonzero exit
\* or spawn failure) raises nothing out of its operation.
C10_FailuresAreValues ==
    [][(Len(outcomes') > Len(outcomes) /\ Failure(outcomes'[Len(outcomes')]))
          => raised' = NoException]_vars

====
